---- MODULE Spec2Model ----
\* Model of the text editor of src/src/main.rs: the EditHistory undo log and
\* the Editor state machine (Editor::new, Editor::update), with the
\* asynchronous load/save tasks whose completions come back as messages.
\*
\* The widget's text_editor::Content is represented by the text it holds: a
\* sequence of characters.  Option<T> is a sequence of at most one element
\* (None == <<>>, Some(x) == <<x>>), except for strings, where "None" is used.
EXTENDS Naturals, Integers, Sequences, FiniteSets, Bags, TLC

VARIABLES path, content, error, theme, is_dirty, block_edit, edit_history,
          pending, last, undo_ret, start_index, undos, dropped, run

vars == <<path, content, error, theme, is_dirty, block_edit, edit_history,
          pending, last, undo_ret, start_index, undos, dropped, run>>

\* the fields of struct Editor
editor == <<path, content, error, theme, is_dirty, block_edit, edit_history>>

-----------------------------------------------------------------------------
\* Bounds of the model

\* longest history (number of snapshots)
MaxHist == 2
\* most asynchronous tasks in flight at once
MaxPending == 2
\* longest history when EditHistory is driven on its own
MaxHistEH == 4
\* most BlockEdit messages in a row that are told apart
MaxBlocks == 2

Chars == {"a"}
Paths == {"p1"}
DefaultPath == "p1"
Themes == {"Base16Mocha", "SolarizedDark"}
Errors == {"DialogClosed", "IOFailed"}

\* the texts a document can hold: the empty text and the one-character texts
Texts == {<<>>} \cup {<<c>> : c \in Chars}

\* the texts handed to EditHistory when it is driven on its own
CharsEH == {"a", "b"}
TextsEH == {<<>>} \cup {<<c>> : c \in CharsEH}

None == <<>>
Some(x) == <<x>>

-----------------------------------------------------------------------------
\* text_editor::Action and text_editor::Content

NoAction == [kind |-> "none", ch |-> ""]

Actions ==
    {[kind |-> "Insert", ch |-> c] : c \in Chars}
        \cup {[kind |-> "Backspace", ch |-> ""], [kind |-> "Move", ch |-> ""]}

\* action.is_edit(): true of the Action::Edit variants only
is_edit(action) == action.kind \in {"Insert", "Backspace"}

\* content.edit(action), on the text of the content
edit(text, action) ==
    CASE action.kind = "Insert" -> Append(text, action.ch)
      [] action.kind = "Backspace" ->
            IF Len(text) = 0 THEN text ELSE SubSeq(text, 1, Len(text) - 1)
      [] OTHER -> text

-----------------------------------------------------------------------------
\* struct EditHistory { history, current_index }; current_index is the
\* 0-based index of the source, so the current snapshot is
\* history[current_index + 1] here.

EditHistory_new(initial_text) ==
    [history |-> <<initial_text>>, current_index |-> 0]

\* add_edit truncating one snapshot too many (truncate(current_index))
add_edit_truncate_short(eh, text) ==
    LET kept == IF eh.current_index < Len(eh.history) - 1
                THEN SubSeq(eh.history, 1, eh.current_index)
                ELSE eh.history
    IN  [history |-> Append(kept, text),
         current_index |-> eh.current_index + 1]

\* add_edit without the truncation of the snapshots after current_index
add_edit_no_truncate(eh, text) ==
    [history |-> Append(eh.history, text),
     current_index |-> eh.current_index + 1]

add_edit(eh, text) ==
    LET kept == IF eh.current_index < Len(eh.history) - 1
                THEN SubSeq(eh.history, 1, eh.current_index + 1)
                ELSE eh.history
    IN  [history |-> Append(kept, text),
         current_index |-> eh.current_index + 1]

\* undo cloning the snapshot before it moves the index
undo_stale(eh) ==
    IF eh.current_index > 0
    THEN [eh  |-> [eh EXCEPT !.current_index = eh.current_index - 1],
          ret |-> Some(eh.history[eh.current_index + 1])]
    ELSE [eh |-> eh, ret |-> None]

\* undo returning the baseline again instead of None at index 0
undo_always_some(eh) ==
    IF eh.current_index > 0
    THEN [eh  |-> [eh EXCEPT !.current_index = eh.current_index - 1],
          ret |-> Some(eh.history[eh.current_index])]
    ELSE [eh |-> eh, ret |-> Some(eh.history[1])]

\* undo returns the pair (the history afterwards, the Option<String> result)
undo(eh) ==
    IF eh.current_index > 0
    THEN [eh  |-> [eh EXCEPT !.current_index = eh.current_index - 1],
          ret |-> Some(eh.history[eh.current_index])]
    ELSE [eh |-> eh, ret |-> None]
\* is_clean comparing with the first index after the baseline
is_clean_off_by_one(eh) == eh.current_index = 1

is_clean(eh) == eh.current_index = 0

-----------------------------------------------------------------------------
\* The asynchronous tasks: each is the set of results it can complete with.

Result(ok, p, t, e) == [ok |-> ok, path |-> p, text |-> t, error |-> e]

Task(kind, p, t) == [kind |-> kind, path |-> p, text |-> t]

\* load_file(path): the file's content, whatever it is now, or an I/O error
load_file(p) ==
    {Result(TRUE, p, c, "None") : c \in Texts}
        \cup {Result(FALSE, "None", <<>>, "IOFailed")}

\* pick_file(): the dialog is closed, or a path is picked and loaded
pick_file ==
    {Result(FALSE, "None", <<>>, "DialogClosed")}
        \cup UNION {load_file(p) : p \in Paths}

\* save_file(path, text): asks for a path when there is none, then writes
save_file(p, text) ==
    LET dests == IF p # "None" THEN {p} ELSE Paths
    IN  {Result(TRUE, d, text, "None") : d \in dests}
            \cup {Result(FALSE, "None", <<>>, "IOFailed")}
            \cup (IF p = "None"
                  THEN {Result(FALSE, "None", <<>>, "DialogClosed")}
                  ELSE {})

Outcomes(task) ==
    CASE task.kind = "load" -> load_file(task.path)
      [] task.kind = "pick" -> pick_file
      [] task.kind = "save" -> save_file(task.path, task.text)

Perform(task) == pending (+) SetToBag({task})
Complete(task) == pending (-) SetToBag({task})
CanPerform == BagCardinality(pending) < MaxPending

-----------------------------------------------------------------------------
\* The message being processed by update, and what the history operations
\* it ran did.

\* count is, for BlockEdit, how many BlockEdit messages have come in a row
\* up to this one and, for UnblockEdit, how many came in a row right before it
Msg(type) ==
    [type |-> type, action |-> NoAction, path |-> "None", text |-> <<>>,
     error |-> "None", theme |-> "None", count |-> 0]

\* the BlockEdit messages in a row that end at the last message
BlocksBefore == IF last.type = "BlockEdit" THEN last.count ELSE 0

\* bookkeeping of a step that ran EditHistory::new or add_edit: the index of
\* the snapshot recorded, no undo since, and how many snapshots of the old
\* history the operation discarded
Recorded(old, eh) ==
    /\ undo_ret' = None
    /\ start_index' = eh.current_index
    /\ undos' = 0
    /\ dropped' = Len(old.history) + 1 - Len(eh.history)

Replaced(eh) ==
    /\ undo_ret' = None
    /\ start_index' = eh.current_index
    /\ undos' = 0
    /\ dropped' = 0

\* bookkeeping of a step that ran no history operation
NoHistoryOp ==
    /\ undo_ret' = None
    /\ dropped' = 0
    /\ UNCHANGED <<start_index, undos>>

\* bookkeeping of a step that ran EditHistory::undo
Undone(r) ==
    /\ undo_ret' = r.ret
    /\ undos' = IF r.ret # None THEN undos + 1 ELSE undos
    /\ dropped' = 0
    /\ UNCHANGED start_index

-----------------------------------------------------------------------------
\* Editor::new
\* The run of messages since the last reset of the editor (Editor::new or
\* FileOpened(Ok)) with the gate open, as long as it is made of k accepted
\* mutating Edit messages followed by u Undo messages and of nothing else;
\* base is the document text at the reset.
RunOff == [on |-> FALSE, k |-> 0, u |-> 0, base |-> <<>>]

RunStart(text, gate_open) ==
    IF gate_open THEN [on |-> TRUE, k |-> 0, u |-> 0, base |-> text]
    ELSE RunOff

RunAfterEdit(action) ==
    IF run.on /\ run.u = 0 /\ ~block_edit /\ is_edit(action)
    THEN [run EXCEPT !.k = run.k + 1]
    ELSE RunOff

RunAfterUndo ==
    IF run.on /\ run.k >= 1 /\ run.u <= run.k
    THEN [run EXCEPT !.u = run.u + 1]
    ELSE RunOff

Init ==
    /\ path = "None"
    /\ content = <<>>
    /\ error = "None"
    /\ theme = "Base16Mocha"
    /\ is_dirty = TRUE
    /\ block_edit = FALSE
    /\ edit_history = EditHistory_new(<<>>)
    /\ pending = SetToBag({Task("load", DefaultPath, <<>>)})
    /\ last = Msg("none")
    /\ undo_ret = None
    /\ start_index = 0
    /\ undos = 0
    /\ dropped = 0
    /\ run = RunStart(<<>>, TRUE)

-----------------------------------------------------------------------------
\* Editor::update, one action per arm of the match

\* the Edit arm without the block_edit early return
Edit_ungated(action) ==
    /\ run' = RunAfterEdit(action)
    /\ last' = [Msg("Edit") EXCEPT !.action = action]
    /\ edit(content, action) \in Texts
    /\ edit_history.current_index + 2 <= MaxHist
    /\ is_dirty' = (is_dirty \/ is_edit(action))
    /\ error' = "None"
    /\ content' = edit(content, action)
    /\ edit_history' = add_edit(edit_history, content')
    /\ Recorded(edit_history, edit_history')
    /\ UNCHANGED <<path, theme, block_edit, pending>>
\* the Edit arm without the clearing of the error
Edit_keeps_error(action) ==
    /\ run' = RunAfterEdit(action)
    /\ last' = [Msg("Edit") EXCEPT !.action = action]
    /\ IF block_edit
       THEN /\ UNCHANGED <<editor, pending>>
            /\ NoHistoryOp
       ELSE /\ edit(content, action) \in Texts
            /\ edit_history.current_index + 2 <= MaxHist
            /\ is_dirty' = (is_dirty \/ is_edit(action))
            /\ content' = edit(content, action)
            /\ edit_history' = add_edit(edit_history, content')
            /\ Recorded(edit_history, edit_history')
            /\ UNCHANGED <<path, error, theme, block_edit, pending>>
\* the Edit arm marking the document dirty whatever the action is
Edit_always_dirty(action) ==
    /\ run' = RunAfterEdit(action)
    /\ last' = [Msg("Edit") EXCEPT !.action = action]
    /\ IF block_edit
       THEN /\ UNCHANGED <<editor, pending>>
            /\ NoHistoryOp
       ELSE /\ edit(content, action) \in Texts
            /\ edit_history.current_index + 2 <= MaxHist
            /\ is_dirty' = TRUE
            /\ error' = "None"
            /\ content' = edit(content, action)
            /\ edit_history' = add_edit(edit_history, content')
            /\ Recorded(edit_history, edit_history')
            /\ UNCHANGED <<path, theme, block_edit, pending>>

Edit(action) ==
    /\ run' = RunAfterEdit(action)
    /\ last' = [Msg("Edit") EXCEPT !.action = action]
    /\ IF block_edit
       THEN /\ UNCHANGED <<editor, pending>>
            /\ NoHistoryOp
       ELSE /\ edit(content, action) \in Texts
            /\ edit_history.current_index + 2 <= MaxHist
            /\ is_dirty' = (is_dirty \/ is_edit(action))
            /\ error' = "None"
            /\ content' = edit(content, action)
            /\ edit_history' = add_edit(edit_history, content')
            /\ Recorded(edit_history, edit_history')
            /\ UNCHANGED <<path, theme, block_edit, pending>>

BlockEdit ==
    /\ run' = RunOff
    /\ last' = [Msg("BlockEdit") EXCEPT
                  !.count = IF BlocksBefore < MaxBlocks THEN BlocksBefore + 1
                            ELSE MaxBlocks]
    /\ block_edit' = TRUE
    /\ NoHistoryOp
    /\ UNCHANGED <<path, content, error, theme, is_dirty, edit_history,
                   pending>>
\* the UnblockEdit arm of a gate that counts: one release undoes one press
UnblockEdit_counting ==
    /\ run' = RunOff
    /\ last' = [Msg("UnblockEdit") EXCEPT !.count = BlocksBefore]
    /\ block_edit' = (BlocksBefore > 1)
    /\ NoHistoryOp
    /\ UNCHANGED <<path, content, error, theme, is_dirty, edit_history,
                   pending>>

UnblockEdit ==
    /\ run' = RunOff
    /\ last' = [Msg("UnblockEdit") EXCEPT !.count = BlocksBefore]
    /\ block_edit' = FALSE
    /\ NoHistoryOp
    /\ UNCHANGED <<path, content, error, theme, is_dirty, edit_history,
                   pending>>

New ==
    /\ run' = RunOff
    /\ last' = Msg("New")
    /\ path' = "None"
    /\ content' = <<>>
    /\ is_dirty' = TRUE
    /\ NoHistoryOp
    /\ UNCHANGED <<error, theme, block_edit, edit_history, pending>>

Open ==
    /\ CanPerform
    /\ run' = RunOff
    /\ last' = Msg("Open")
    /\ pending' = Perform(Task("pick", "None", <<>>))
    /\ NoHistoryOp
    /\ UNCHANGED <<editor>>

\* the FileOpened(Ok) arm without the reset of the edit history
FileOpenedOk_keep_history(task, r) ==
    /\ BagIn(task, pending) /\ task.kind \in {"load", "pick"}
    /\ r \in Outcomes(task) /\ r.ok
    /\ run' = RunStart(r.text, ~block_edit)
    /\ last' = [Msg("FileOpenedOk") EXCEPT !.path = r.path, !.text = r.text]
    /\ pending' = Complete(task)
    /\ path' = r.path
    /\ content' = r.text
    /\ is_dirty' = FALSE
    /\ NoHistoryOp
    /\ UNCHANGED <<error, theme, block_edit, edit_history>>

FileOpenedOk(task, r) ==
    /\ BagIn(task, pending) /\ task.kind \in {"load", "pick"}
    /\ r \in Outcomes(task) /\ r.ok
    /\ run' = RunStart(r.text, ~block_edit)
    /\ last' = [Msg("FileOpenedOk") EXCEPT !.path = r.path, !.text = r.text]
    /\ pending' = Complete(task)
    /\ path' = r.path
    /\ content' = r.text
    /\ edit_history' = EditHistory_new(r.text)
    /\ is_dirty' = FALSE
    /\ Replaced(edit_history')
    /\ UNCHANGED <<error, theme, block_edit>>

\* the FileOpened(Err) arm also dropping the path of the document
FileOpenedErr_drop_path(task, r) ==
    /\ BagIn(task, pending) /\ task.kind \in {"load", "pick"}
    /\ r \in Outcomes(task) /\ ~r.ok
    /\ run' = RunOff
    /\ last' = [Msg("FileOpenedErr") EXCEPT !.error = r.error]
    /\ pending' = Complete(task)
    /\ error' = r.error
    /\ path' = "None"
    /\ NoHistoryOp
    /\ UNCHANGED <<content, theme, is_dirty, block_edit, edit_history>>

FileOpenedErr(task, r) ==
    /\ BagIn(task, pending) /\ task.kind \in {"load", "pick"}
    /\ r \in Outcomes(task) /\ ~r.ok
    /\ run' = RunOff
    /\ last' = [Msg("FileOpenedErr") EXCEPT !.error = r.error]
    /\ pending' = Complete(task)
    /\ error' = r.error
    /\ NoHistoryOp
    /\ UNCHANGED <<path, content, theme, is_dirty, block_edit, edit_history>>
\* the Save arm leaving the reset of the history to the completion
Save_no_reset ==
    /\ CanPerform
    /\ run' = RunOff
    /\ last' = Msg("Save")
    /\ pending' = Perform(Task("save", path, content))
    /\ NoHistoryOp
    /\ UNCHANGED <<path, content, error, theme, is_dirty, block_edit,
                   edit_history>>

Save ==
    /\ CanPerform
    /\ run' = RunOff
    /\ last' = Msg("Save")
    /\ edit_history' = EditHistory_new(content)
    /\ pending' = Perform(Task("save", path, content))
    /\ Replaced(edit_history')
    /\ UNCHANGED <<path, content, error, theme, is_dirty, block_edit>>

\* the FileSaved(Ok) arm taking the history reset of the Save arm
FileSavedOk_reset_history(task, r) ==
    /\ BagIn(task, pending) /\ task.kind = "save"
    /\ r \in Outcomes(task) /\ r.ok
    /\ run' = RunOff
    /\ last' = [Msg("FileSavedOk") EXCEPT !.path = r.path, !.text = r.text]
    /\ pending' = Complete(task)
    /\ path' = r.path
    /\ is_dirty' = FALSE
    /\ edit_history' = EditHistory_new(content)
    /\ Replaced(edit_history')
    /\ UNCHANGED <<content, error, theme, block_edit>>
\* the FileSaved(Ok) arm ignoring the completion of a save whose text is no
\* longer the text of the document
FileSavedOk_drops_stale(task, r) ==
    /\ BagIn(task, pending) /\ task.kind = "save"
    /\ r \in Outcomes(task) /\ r.ok
    /\ run' = RunOff
    /\ last' = [Msg("FileSavedOk") EXCEPT !.path = r.path, !.text = r.text]
    /\ pending' = Complete(task)
    /\ IF content = r.text
       THEN /\ path' = r.path
            /\ is_dirty' = FALSE
       ELSE UNCHANGED <<path, is_dirty>>
    /\ NoHistoryOp
    /\ UNCHANGED <<content, error, theme, block_edit, edit_history>>

FileSavedOk(task, r) ==
    /\ BagIn(task, pending) /\ task.kind = "save"
    /\ r \in Outcomes(task) /\ r.ok
    /\ run' = RunOff
    /\ last' = [Msg("FileSavedOk") EXCEPT !.path = r.path, !.text = r.text]
    /\ pending' = Complete(task)
    /\ path' = r.path
    /\ is_dirty' = FALSE
    /\ NoHistoryOp
    /\ UNCHANGED <<content, error, theme, block_edit, edit_history>>
\* the FileSaved(Err) arm treating the end of the save as a save
FileSavedErr_clears_dirty(task, r) ==
    /\ BagIn(task, pending) /\ task.kind = "save"
    /\ r \in Outcomes(task) /\ ~r.ok
    /\ run' = RunOff
    /\ last' = [Msg("FileSavedErr") EXCEPT !.error = r.error]
    /\ pending' = Complete(task)
    /\ error' = r.error
    /\ is_dirty' = FALSE
    /\ NoHistoryOp
    /\ UNCHANGED <<path, content, theme, block_edit, edit_history>>

FileSavedErr(task, r) ==
    /\ BagIn(task, pending) /\ task.kind = "save"
    /\ r \in Outcomes(task) /\ ~r.ok
    /\ run' = RunOff
    /\ last' = [Msg("FileSavedErr") EXCEPT !.error = r.error]
    /\ pending' = Complete(task)
    /\ error' = r.error
    /\ NoHistoryOp
    /\ UNCHANGED <<path, content, theme, is_dirty, block_edit, edit_history>>

ThemeSelected(t) ==
    /\ run' = RunOff
    /\ last' = [Msg("ThemeSelected") EXCEPT !.theme = t]
    /\ theme' = t
    /\ NoHistoryOp
    /\ UNCHANGED <<path, content, error, is_dirty, block_edit, edit_history,
                   pending>>
\* the Undo arm without the is_dirty condition
Undo_ungated ==
    /\ run' = RunAfterUndo
    /\ last' = Msg("Undo")
    /\ LET r == undo(edit_history)
       IN  /\ edit_history' = r.eh
           /\ Undone(r)
           /\ IF r.ret # None
              THEN /\ content' = r.ret[1]
                   /\ is_dirty' = IF is_clean(r.eh) THEN FALSE ELSE is_dirty
              ELSE UNCHANGED <<content, is_dirty>>
    /\ UNCHANGED <<path, error, theme, block_edit, pending>>
\* the Undo arm moving the index without replacing the content
Undo_index_only ==
    /\ run' = RunAfterUndo
    /\ last' = Msg("Undo")
    /\ IF is_dirty
       THEN LET r == undo(edit_history)
            IN  /\ edit_history' = r.eh
                /\ Undone(r)
                /\ content' = content
                /\ is_dirty' = IF r.ret # None /\ is_clean(r.eh) THEN FALSE
                               ELSE is_dirty
       ELSE /\ NoHistoryOp
            /\ UNCHANGED <<content, is_dirty, edit_history>>
    /\ UNCHANGED <<path, error, theme, block_edit, pending>>

Undo ==
    /\ run' = RunAfterUndo
    /\ last' = Msg("Undo")
    /\ IF is_dirty
       THEN LET r == undo(edit_history)
            IN  /\ edit_history' = r.eh
                /\ Undone(r)
                /\ IF r.ret # None
                   THEN /\ content' = r.ret[1]
                        /\ is_dirty' = IF is_clean(r.eh) THEN FALSE
                                       ELSE is_dirty
                   ELSE UNCHANGED <<content, is_dirty>>
       ELSE /\ NoHistoryOp
            /\ UNCHANGED <<content, is_dirty, edit_history>>
    /\ UNCHANGED <<path, error, theme, block_edit, pending>>

Next ==
    \/ \E action \in Actions : Edit(action)
    \/ BlockEdit
    \/ UnblockEdit
    \/ New
    \/ Open
    \/ \E task \in BagToSet(pending) : \E r \in Outcomes(task) : FileOpenedOk(task, r)
    \/ \E task \in BagToSet(pending) : \E r \in Outcomes(task) : FileOpenedErr(task, r)
    \/ Save
    \/ \E task \in BagToSet(pending) : \E r \in Outcomes(task) : FileSavedOk(task, r)
    \/ \E task \in BagToSet(pending) : \E r \in Outcomes(task) : FileSavedErr(task, r)
    \/ \E t \in Themes : ThemeSelected(t)
    \/ Undo

Spec == Init /\ [][Next]_vars

-----------------------------------------------------------------------------
\* EditHistory on its own: any sequence of new, add_edit and undo calls, with
\* any texts.  The editor's other fields stay as Editor::new left them.

others == <<path, content, error, theme, is_dirty, block_edit, pending, run>>

InitEH ==
    /\ path = "None"
    /\ content = <<>>
    /\ error = "None"
    /\ theme = "Base16Mocha"
    /\ is_dirty = TRUE
    /\ block_edit = FALSE
    /\ \E t \in TextsEH : edit_history = EditHistory_new(t)
    /\ pending = EmptyBag
    /\ last = Msg("new")
    /\ undo_ret = None
    /\ start_index = 0
    /\ undos = 0
    /\ dropped = 0
    /\ run = RunOff

CallNew(t) ==
    /\ last' = [Msg("new") EXCEPT !.text = t]
    /\ edit_history' = EditHistory_new(t)
    /\ Replaced(edit_history')
    /\ UNCHANGED others

CallAddEdit(t) ==
    /\ edit_history.current_index + 2 <= MaxHistEH
    /\ last' = [Msg("add_edit") EXCEPT !.text = t]
    /\ edit_history' = add_edit(edit_history, t)
    /\ Recorded(edit_history, edit_history')
    /\ UNCHANGED others

CallUndo ==
    /\ last' = Msg("undo")
    /\ LET r == undo(edit_history)
       IN  /\ edit_history' = r.eh
           /\ Undone(r)
    /\ UNCHANGED others

NextEH ==
    \/ \E t \in TextsEH : CallNew(t)
    \/ \E t \in TextsEH : CallAddEdit(t)
    \/ CallUndo

SpecEH == InitEH /\ [][NextEH]_vars

-----------------------------------------------------------------------------
\* Properties

Snapshots == edit_history.history
Index == edit_history.current_index

\* C1: in every reachable state of the editor, if is_dirty is false then
\* edit_history.current_index is 0.
C1_CleanImpliesIndexZero ==
    ~is_dirty => Index = 0

\* C2: is_dirty is true if and only if the document text differs from the
\* last-loaded-or-saved snapshot.  Stated of the states in which that
\* snapshot is at hand: right after FileOpened(Ok) delivered a content or
\* FileSaved(Ok) completed the save of a text, is_dirty is true exactly when
\* the document text differs from that content or text.
C2_DirtyIffDiffers ==
    last.type \in {"FileOpenedOk", "FileSavedOk"} =>
        (is_dirty <=> content # last.text)

\* C3: for every sequence of EditHistory::new, add_edit and undo calls the
\* history is non-empty and 0 <= current_index <= history.len() - 1.
C3_IndexInBounds ==
    /\ Len(Snapshots) >= 1
    /\ 0 <= Index
    /\ Index <= Len(Snapshots) - 1

\* an undo has brought the index of a history of several snapshots to 0
C3_Witness ==
    /\ last.type = "undo"
    /\ undo_ret # None
    /\ Index = 0
    /\ Len(Snapshots) >= 3

\* C4: add_edit(text) called when current_index is not the last index
\* leaves the old prefix [0..current_index] followed by text, with
\* current_index at the new last index, so that the snapshots after the old
\* current_index are in no position a later undo reads: an undo returns the
\* snapshot at its new index, which is inside the history.
C4_AddEditDiscardsRedo ==
    [][/\ (last'.type = "add_edit" /\ Index < Len(Snapshots) - 1) =>
            /\ edit_history'.history =
                   Append(SubSeq(Snapshots, 1, Index + 1), last'.text)
            /\ edit_history'.current_index = Len(edit_history'.history) - 1
            /\ edit_history'.current_index = Index + 1
       /\ (last'.type = "undo" /\ undo_ret' # None) =>
            /\ edit_history'.current_index + 1 <= Len(edit_history'.history)
            /\ undo_ret' =
                   Some(edit_history'.history[edit_history'.current_index + 1])
            /\ edit_history'.history = Snapshots
      ]_vars

\* an add_edit has discarded at least two snapshots
C4_Witness ==
    /\ last.type = "add_edit"
    /\ dropped >= 2
    /\ Index = Len(Snapshots) - 1

\* C5: undo with current_index > 0 decrements current_index by exactly one
\* and returns the snapshot at the new index; with current_index = 0 it
\* returns None and leaves current_index unchanged; the stored snapshots are
\* unchanged in both cases.
C5_UndoStep ==
    [][last'.type = "undo" =>
         /\ edit_history'.history = Snapshots
         /\ Index > 0 =>
               /\ edit_history'.current_index = Index - 1
               /\ undo_ret' = Some(Snapshots[Index])
         /\ Index = 0 =>
               /\ edit_history'.current_index = 0
               /\ undo_ret' = None
      ]_vars

\* an undo has returned a snapshot that is not the baseline
C5_Witness ==
    /\ last.type = "undo"
    /\ undo_ret # None
    /\ Index > 0
    /\ undo_ret[1] # Snapshots[Index + 2]

\* C6: undo never returns a snapshot newer than the last one recorded: what
\* it returns is the stored snapshot at the new index, strictly below the
\* previous index and below the index of the last recorded snapshot; and
\* undos with no add_edit in between return None after exactly as many
\* successful undos as the index of the last recorded snapshot.
C6_UndoRun ==
    /\ [](/\ Index + undos = start_index
          /\ undo_ret # None =>
                /\ undo_ret = Some(Snapshots[Index + 1])
                /\ Index < start_index
          /\ (last.type = "undo" /\ undo_ret = None) =>
                /\ undos = start_index
                /\ Index = 0)
    /\ [][undo_ret' # None => edit_history'.current_index < Index]_vars

\* an undo has returned None after a run of three successful undos
C6_Witness ==
    /\ last.type = "undo"
    /\ undo_ret = None
    /\ undos >= 3

\* C7: an Edit message processed while block_edit is true is swallowed,
\* whatever its action: document content, history snapshots and length,
\* current_index, is_dirty, error, path and block_edit are all unchanged.
C7_BlockedEditSwallowed ==
    [][(last'.type = "Edit" /\ block_edit) =>
         UNCHANGED <<content, edit_history, is_dirty, error, path,
                     block_edit>>
      ]_vars

\* an Insert was swallowed on a clean document showing an error
C7_Witness ==
    /\ last.type = "Edit"
    /\ last.action.kind = "Insert"
    /\ block_edit
    /\ ~is_dirty
    /\ error # "None"
    /\ content = <<>>

\* C8: from any state, processing FileOpened(Ok(path, content)) yields
\* path = path, document text = content, is_dirty = false and an edit
\* history of exactly one snapshot equal to content with current_index 0.
C8_FileOpenedResets ==
    last.type = "FileOpenedOk" =>
        /\ path = last.path
        /\ content = last.text
        /\ ~is_dirty
        /\ edit_history = [history |-> <<last.text>>, current_index |-> 0]

\* a file was opened while the gate was closed and a save was in flight
\* whose text is not the text loaded
C8_Witness ==
    /\ last.type = "FileOpenedOk"
    /\ block_edit
    /\ \E task \in BagToSet(pending) :
          task.kind = "save" /\ task.text # content

\* C9: processing FileSaved(Ok(path)) in any state sets is_dirty to false
\* and path to the saved path, and leaves document content, edit history,
\* error and block_edit unchanged.
C9_FileSavedOk ==
    [][last'.type = "FileSavedOk" =>
         /\ ~is_dirty'
         /\ path' = last'.path
         /\ UNCHANGED <<content, edit_history, error, block_edit>>
      ]_vars

\* a save completed on a document edited since the Save request, with an
\* error on display
C9_Witness ==
    /\ last.type = "FileSavedOk"
    /\ Index > 0
    /\ error # "None"
    /\ path = last.path

\* C10: processing FileOpened(Err(e)) sets error to e and leaves document
\* content, path, is_dirty, edit history and block_edit unchanged; the
\* editor keeps accepting messages afterwards.
C10_FileOpenedErr ==
    /\ [][last'.type = "FileOpenedErr" =>
             /\ error' = last'.error
             /\ UNCHANGED <<content, path, is_dirty, edit_history,
                            block_edit>>
          ]_vars
    /\ [](last.type = "FileOpenedErr" =>
             /\ ENABLED New
             /\ ENABLED Undo
             /\ ENABLED BlockEdit
             /\ ENABLED UnblockEdit
             /\ ENABLED (\E t \in Themes : ThemeSelected(t))
             /\ ENABLED Open
             /\ ENABLED Save)

\* a cancelled open dialog left an edited document with a path as it was
C10_Witness ==
    /\ last.type = "FileOpenedErr"
    /\ error = "DialogClosed"
    /\ path # "None"
    /\ is_dirty
    /\ Index > 0


\* C11: a Save requested with no path resets the history to the single
\* baseline of the current text and leaves path and is_dirty alone; when
\* its path selection is cancelled FileSaved(Err(DialogClosed)) comes back,
\* only from a save requested with no path, and processing it sets error to
\* DialogClosed and leaves path, is_dirty and the history as they were: the
\* reset made at the Save request is not rolled back.
C11_SaveCancelled ==
    [][/\ (last'.type = "Save" /\ path = "None") =>
            /\ edit_history' = [history |-> <<content>>, current_index |-> 0]
            /\ UNCHANGED <<path, is_dirty>>
       /\ (last'.type = "FileSavedErr" /\ last'.error = "DialogClosed") =>
            /\ \E task \in BagToSet(pending) :
                  /\ task.kind = "save" /\ task.path = "None"
                  /\ pending' = pending (-) SetToBag({task})
            /\ error' = "DialogClosed"
            /\ UNCHANGED <<path, is_dirty, edit_history, content>>
      ]_vars

\* a cancelled save of an edited, never saved document: still dirty, still
\* without a path, and the history is the single baseline of the text
C11_Witness ==
    /\ last.type = "FileSavedErr"
    /\ error = "DialogClosed"
    /\ path = "None"
    /\ is_dirty
    /\ content # <<>>
    /\ edit_history = [history |-> <<content>>, current_index |-> 0]

\* C12: an Undo message processed while is_dirty is false is a no-op even
\* if the history has entries before current_index: document content,
\* current_index, history, is_dirty, path and error are all unchanged.
C12_CleanUndoNoOp ==
    [][(last'.type = "Undo" /\ ~is_dirty) =>
         UNCHANGED <<content, edit_history, is_dirty, path, error>>
      ]_vars

\* an Undo left a clean document at an index above the baseline
C12_Witness ==
    /\ last.type = "Undo"
    /\ ~is_dirty
    /\ Index > 0
    /\ undo_ret = None


\* C14: after a New message is processed the history is a single baseline
\* snapshot equal to the new empty document, with current_index 0 (so that
\* an Undo right after New cannot bring back text of the replaced document).
C14_NewResetsHistory ==
    last.type = "New" =>
        /\ content = <<>>
        /\ edit_history = [history |-> <<content>>, current_index |-> 0]

\* C15: a stored error is cleared by an Edit that is accepted (processed
\* with block_edit false) and is not cleared by an Edit that is swallowed
\* while block_edit is true.
C15_ErrorClearedByEdit ==
    [][last'.type = "Edit" =>
         /\ ~block_edit => error' = "None"
         /\ block_edit => error' = error
      ]_vars

\* a cursor move was swallowed and the error of a cancelled dialog is still
\* stored
C15_Witness ==
    /\ last.type = "Edit"
    /\ last.action.kind = "Move"
    /\ block_edit
    /\ error = "DialogClosed"

\* C17: processing Save resets the edit history at once to a single
\* snapshot equal to the current document text with current_index 0, issues
\* exactly one asynchronous save carrying the current path and that text,
\* and leaves document content, path, is_dirty, error and block_edit
\* unchanged.
C17_SaveStep ==
    [][last'.type = "Save" =>
         /\ edit_history' = [history |-> <<content>>, current_index |-> 0]
         /\ pending' = pending (+) SetToBag({Task("save", path, content)})
         /\ UNCHANGED <<content, path, is_dirty, error, block_edit>>
      ]_vars

\* a Save of a dirty document with a path and an error on display: the
\* save in flight carries the path and the text, the history is the baseline
C17_Witness ==
    /\ last.type = "Save"
    /\ is_dirty
    /\ path # "None"
    /\ error # "None"
    /\ content # <<>>
    /\ BagIn(Task("save", path, content), pending)
    /\ edit_history = [history |-> <<content>>, current_index |-> 0]


\* C18: every Edit accepted while block_edit is false, mutating or not,
\* applies the action, clears error, records the resulting text as the
\* snapshot after the old current one so that current_index is the last
\* index, and sets is_dirty to (previous is_dirty or the action is a
\* mutating edit); a non-mutating action never turns a clean document dirty.
C18_AcceptedEdit ==
    [][(last'.type = "Edit" /\ ~block_edit) =>
         /\ content' = edit(content, last'.action)
         /\ error' = "None"
         /\ edit_history'.history =
                Append(SubSeq(Snapshots, 1, Index + 1), content')
         /\ edit_history'.current_index = Index + 1
         /\ edit_history'.current_index = Len(edit_history'.history) - 1
         /\ is_dirty' =
                (is_dirty \/ last'.action.kind \in {"Insert", "Backspace"})
         /\ (~is_dirty /\ last'.action.kind = "Move") => ~is_dirty'
      ]_vars

\* a cursor move was accepted on a clean document: one more snapshot, the
\* document is still clean
C18_Witness ==
    /\ last.type = "Edit"
    /\ last.action.kind = "Move"
    /\ ~block_edit
    /\ ~is_dirty
    /\ Index = Len(Snapshots) - 1
    /\ Index > 0
    /\ Snapshots[Index + 1] = content

\* the document is not, or no longer, the one the completing save was
\* requested for: its text is not the text saved, it was edited since the
\* Save request, or its path is not the path saved to
Raced(r) ==
    \/ content # r.text
    \/ Index > 0
    \/ path # r.path

\* C19: completions are applied in arrival order with no cancellation: a
\* FileSaved(Ok(p)) that arrives after an Edit, New or FileOpened(Ok)
\* processed later than its Save request is still applied, setting path = p
\* and is_dirty = false for whatever document is current, without changing
\* document content or history.
C19_StaleSaveApplied ==
    [][(last'.type = "FileSavedOk" /\ Raced(last')) =>
         /\ path' = last'.path
         /\ ~is_dirty'
         /\ UNCHANGED <<content, edit_history>>
      ]_vars

\* the save of another text completed on a document since emptied by New
\* and edited: it is clean and has the path of the save
C19_Witness ==
    /\ last.type = "FileSavedOk"
    /\ content # last.text
    /\ Index > 0
    /\ ~is_dirty
    /\ path = last.path

\* the document text is the snapshot at current_index
TextIsCurrent == content = Snapshots[Index + 1]

C16_GateDoesNotCount ==
    /\ [](/\ (last.type = "BlockEdit" => block_edit)
          /\ (last.type = "UnblockEdit" => ~block_edit))
    /\ [][/\ (last'.type \notin {"BlockEdit", "UnblockEdit"}) =>
               (block_edit' = block_edit)
          /\ (last'.type = "Edit" /\ last.type = "UnblockEdit") =>
               (/\ content' = edit(content, last'.action)
                /\ edit_history'.current_index = Index + 1
                /\ edit_history'.history[Index + 2] = content')
         ]_vars

\* one UnblockEdit after two BlockEdit messages in a row: the gate is open
C16_Witness ==
    /\ last.type = "UnblockEdit"
    /\ last.count >= 2
    /\ ~block_edit


====
